---- MODULE Spec2Model ----
(***************************************************************************)
(* The four RAG chatbot scripts (in-memory, Pinecone, ChromaDB, LanceDB)   *)
(* as one state machine: startup (initialize), the knowledge-base build,   *)
(* the readline loop and the chat() handler with its commands.             *)
(* Text is a sequence of one-character strings, so that trim() and         *)
(* toLowerCase() are computed and not assumed.                             *)
(***************************************************************************)
EXTENDS Naturals, Integers, Sequences, FiniteSets, TLC

VARIABLES
    variant,        \* which of the four scripts runs
    env,            \* what the outside world may do: lines typed, streams sent
    linesLeft,      \* lines the user will still type at a prompt
    failuresLeft,   \* external calls that may still fail
    strayLeft,      \* lines the user may still type while no prompt is pending
    kb,             \* the knowledge-base directory on disk
    store,          \* the backend's collection / table / index (vectorstore)
    handle,         \* this.index / this.collection / this.table / this.vectorstore
    chatHistory,    \* this.chatHistory
    isInitialized,  \* this.isInitialized
    documentCount,  \* this.documentCount
    mainPc,         \* position of main()
    exited,         \* the process has ended
    exitCode,       \* its exit code
    rl,             \* the readline interface: "none", "open", "closed"
    pending,        \* a rl.question callback is registered
    cb,             \* the running rl.question callback and the chat() call in it
    activeChats,    \* chat() invocations that have not returned
    b,              \* the running createKnowledgeBase() call
    appended,       \* every turn ever pushed on chatHistory, in order
    stdout,         \* payload written to the terminal since the last prompt
    ev,             \* steps of the current question turn, in execution order
    note,           \* the line being handled: its text, its case, its result
    stats,          \* question turns asked and failed so far, runs of the script
    reqs            \* kinds of request initialize() has issued

vars == <<variant, env, linesLeft, failuresLeft, strayLeft, kb, store, handle,
          chatHistory, isInitialized, documentCount, mainPc, exited, exitCode,
          rl, pending, cb, activeChats, b, appended, stdout, ev, note, stats, reqs>>

-----------------------------------------------------------------------------
(* Bounds of the model *)

MaxLines == 2
MaxLinesLong == 11
MaxFailures == 2
MaxStray == 1
MaxLinesStartup == 1
MaxLinesBulk == 1
MaxRuns == 2

(* Program constants *)

HistoryCap == 20
BatchSize == 100
TopK == 4
EmbeddingDim == 1536

-----------------------------------------------------------------------------
(* Text *)

LowerOf == [E |-> "e", X |-> "x", I |-> "i", T |-> "t", Q |-> "q", U |-> "u",
            R |-> "r", B |-> "b", L |-> "l", D |-> "d", S |-> "s", A |-> "a",
            H |-> "h"]

toLowerCase(s) ==
    [i \in 1..Len(s) |-> IF s[i] \in DOMAIN LowerOf THEN LowerOf[s[i]] ELSE s[i]]

IsSpace(c) == c \in {" ", "\t"}

RECURSIVE trimStart(_)
trimStart(s) ==
    IF s # <<>> /\ IsSpace(Head(s)) THEN trimStart(Tail(s)) ELSE s

RECURSIVE trimEnd(_)
trimEnd(s) ==
    IF s # <<>> /\ IsSpace(s[Len(s)]) THEN trimEnd(SubSeq(s, 1, Len(s) - 1)) ELSE s

trim(s) == trimEnd(trimStart(s))

W_exit == <<"e", "x", "i", "t">>
W_quit == <<"q", "u", "i", "t">>
W_rebuild == <<"r", "e", "b", "u", "i", "l", "d">>
W_status == <<"s", "t", "a", "t", "u", "s">>

MODEL(v) == IF v = "pinecone" THEN "gpt-4o" ELSE "gpt-4o-mini"

\* What chat() returns is a record; its kind tells the canned strings apart:
\* "apology" is 'Sorry, I encountered an error processing your question. Please
\* try again.', "rebuilt" is 'Knowledge base rebuilt successfully!', "status"
\* carries the report of getStatus, "answer" carries fullResponse.

-----------------------------------------------------------------------------
(* The outside world *)

Variants == {"memory", "pinecone", "chroma", "lancedb"}
Remote == {"pinecone", "chroma", "lancedb"}

\* Lines of a short session: commands in mixed case and padded, an empty
\* line, a question.
ShortLines == {
    <<"E", "x", "i", "t", " ">>,
    <<"q", "u", "i", "t">>,
    <<" ", "R", "e", "b", "u", "i", "l", "d">>,
    <<"S", "T", "A", "T", "U", "S">>,
    <<" ">>,
    <<"H", "i", " ">> }

\* A session over a large knowledge base gives commands only.
BulkLines == { <<" ", "R", "e", "b", "u", "i", "l", "d">>, <<"S", "T", "A", "T", "U", "S">> }

\* A session on a store made for another embedding model: a question, a
\* rebuild.
SchemaLines == { <<"h", "i">>, <<" ", "R", "e", "b", "u", "i", "l", "d">> }

\* A long session asks one question over and over.
LongLines == { <<"h", "i">> }

\* Streams of the completion API: sequences of fragments, some empty.
ShortStreams == { << <<"o">>, <<>>, <<"k">> >> }
LongStreams == { << <<"o", "k">> >> }

\* The credentials in the process environment: each variable is absent, holds
\* the placeholder text of the documentation, or holds a key. STORE_API_KEY
\* stands for PINECONE_API_KEY / LANCEDB_API_KEY.
Configured == [OPENAI_API_KEY |-> "set", OPENAI_API_KEYY |-> "set",
               STORE_API_KEY |-> "set"]

\* Environments with one variable missing or left as the placeholder.
Misconfigured ==
    { [Configured EXCEPT ![x] = y] :
        x \in {"OPENAI_API_KEY", "OPENAI_API_KEYY", "STORE_API_KEY"},
        y \in {"absent", "placeholder"} }

\* Sessions: a short one with diverse lines, a long one, a start under each
\* misconfigured environment, one over a large knowledge base, one on a store
\* of another dimension, and one in which the script is started again.
Envs == { [kind |-> "short", tty |-> ShortLines, streams |-> ShortStreams,
           creds |-> Configured],
          [kind |-> "long", tty |-> LongLines, streams |-> LongStreams,
           creds |-> Configured] }
        \cup { [kind |-> "startup", tty |-> ShortLines, streams |-> ShortStreams,
                 creds |-> c] : c \in Misconfigured }
        \cup { [kind |-> "bulk", tty |-> BulkLines, streams |-> ShortStreams,
                 creds |-> Configured] }
        \cup { [kind |-> "schema", tty |-> SchemaLines, streams |-> LongStreams,
                 creds |-> Configured] }
        \cup { [kind |-> "restart", tty |-> {}, streams |-> LongStreams,
                 creds |-> Configured] }

\* const OPENAI_API_KEY = process.env.OPENAI_API_KEY || '<literal key>' (Pinecone,
\* LanceDB); process.env.OPENAI_API_KEY (in-memory); process.env.OPENAI_API_KEYY
\* (ChromaDB).
OPENAI_API_KEY(v, creds) ==
    IF v = "chroma" THEN creds.OPENAI_API_KEYY
    ELSE IF v = "memory" THEN creds.OPENAI_API_KEY
    ELSE IF creds.OPENAI_API_KEY = "absent" THEN "default"
    ELSE creds.OPENAI_API_KEY

\* const PINECONE_API_KEY = process.env.PINECONE_API_KEY || 'your-pinecone-api-key';
\* const LANCEDB_API_KEY = process.env.LANCEDB_API_KEY || '<literal key>'.
STORE_API_KEY(v, creds) ==
    IF creds.STORE_API_KEY # "absent" THEN creds.STORE_API_KEY
    ELSE IF v = "pinecone" THEN "placeholder"
    ELSE "default"

\* The check of the OpenAI key at the head of initialize: `!key || key ===
\* 'your-openai-api-key'` (Pinecone, ChromaDB), `!key` (LanceDB), none in the
\* in-memory script, where `new OpenAI({ apiKey: undefined })` throws.
OpenAIKeyAccepted(v, creds) ==
    IF v \in {"pinecone", "chroma"}
    THEN OPENAI_API_KEY(v, creds) \notin {"absent", "placeholder"}
    ELSE OPENAI_API_KEY(v, creds) # "absent"

\* initializePinecone: `!PINECONE_API_KEY || PINECONE_API_KEY ===
\* 'your-pinecone-api-key'`; no other script checks a store key.
StoreKeyAccepted(v, creds) ==
    v = "pinecone" => STORE_API_KEY(v, creds) \notin {"absent", "placeholder"}

\* Folders of the knowledge base, each with the number of chunks its
\* documents split into.
KbFull == << [name |-> "faq", n |-> 1], [name |-> "docs", n |-> 2] >>

\* Variant of KbExample: the root directory alone, no example folder in it.
KbEmptyRoot == <<>>

\* createExampleKnowledgeBase: knowledge-base/example with example.md in it.
KbExample == << [name |-> "example", n |-> 1] >>

\* What an earlier run left in the store.
KbOld == << [name |-> "old", n |-> 4] >>

\* A knowledge base of 2 * batchSize + 1 chunks: three batches.
KbBulk == << [name |-> "faq", n |-> BatchSize + 1], [name |-> "docs", n |-> BatchSize] >>

-----------------------------------------------------------------------------
(* Documents, chunks and records *)

RECURSIVE ChunksOf(_)
\* loadDocuments + createTextChunks: the chunks of the loaded folders, in
\* folder order, each tagged with its folder's name.
ChunksOf(folders) ==
    IF folders = <<>> THEN <<>>
    ELSE [k \in 1..Head(folders).n |->
            [doc_type |-> Head(folders).name, source |-> Head(folders).name, k |-> k]]
         \o ChunksOf(Tail(folders))

\* Variant of RecordId: the position in the batch, not the global index.
RecordIdInBatch(v, i) == [tag |-> IF v = "lancedb" THEN "row" ELSE "doc", i |-> i % BatchSize]

\* The id a chunk is stored under: `doc_${globalIndex}` or the row number i.
RecordId(v, i) == [tag |-> IF v = "lancedb" THEN "row" ELSE "doc", i |-> i]

RecordOf(v, chunk, i) ==
    [id |-> RecordId(v, i), doc_type |-> chunk.doc_type,
     source |-> chunk.source, k |-> chunk.k]

Range(seq) == { seq[i] : i \in 1..Len(seq) }

\* Every record a complete build of `folders` stores.
BuildRecs(v, folders) ==
    LET cs == ChunksOf(folders)
    IN  { RecordOf(v, cs[i], i - 1) : i \in 1..Len(cs) }

\* index.upsert: insert or overwrite by id.
Upsert(recs, batch) ==
    { r \in recs : \A x \in Range(batch) : x.id # r.id } \cup Range(batch)

\* collection.add: insert the records whose ids are new.
AddNew(recs, batch) ==
    recs \cup { x \in Range(batch) : \A r \in recs : r.id # x.id }

\* The backend's collection / table / index: whether it exists, which
\* incarnation it is, its records and the dimension of its vectors.
Absent == [exists |-> FALSE, gen |-> 0, recs |-> {}, dim |-> 0]
EmptyStore == [exists |-> TRUE, gen |-> 1, recs |-> {}, dim |-> EmbeddingDim]
Populated(v, folders) ==
    [exists |-> TRUE, gen |-> 1, recs |-> BuildRecs(v, folders), dim |-> EmbeddingDim]

\* A dimension other than that of text-embedding-3-small.
OtherDim == EmbeddingDim \div 2

\* A store made for another embedding model.
Mismatched(st) == [st EXCEPT !.dim = OtherDim]

\* The backend accepts vectors of the embedding model's dimension only.
DimMatches == store.dim = EmbeddingDim

Count(st) == Cardinality(st.recs)

\* The handle names a live collection / table / index.
HandleValid == handle # 0 /\ store.exists /\ handle = store.gen

-----------------------------------------------------------------------------
(* Records of the control state *)

NoReport == [backend |-> FALSE, available |-> FALSE,
             docs |-> [state |-> "na", n |-> 0], history |-> 0, model |-> ""]

Ret(kind, text) == [kind |-> kind, text |-> text, report |-> NoReport]
NoRet == Ret("none", <<>>)

BlankCb == [pc |-> "idle", message |-> <<>>, relevantDocs |-> <<>>,
            messages |-> <<>>, stream |-> <<>>, si |-> 0,
            fullResponse |-> <<>>, ret |-> NoRet]

IdleBuild == [pc |-> "idle", caller |-> "none", chunks |-> <<>>,
              allLoaded |-> TRUE, fresh |-> FALSE, i |-> 0, buf |-> <<>>,
              failedAt |-> "none", sent |-> <<>>, bad |-> {}, rootAbsent |-> FALSE]

\* What retrieveRelevantDocuments did in the turn: whether it returned or
\* threw, under which circumstances, and how many documents it returned.
NoRetrieval == [out |-> "none", cause |-> "none", n |-> 0]
Retrieved(cause, docs) == [out |-> "returned", cause |-> cause, n |-> Len(docs)]
RetrievalThrew(cause) == [out |-> "threw", cause |-> cause, n |-> 0]

NoNote == [line |-> <<>>, did |-> "none", h0 |-> 0, embedFailed |-> FALSE,
           retrieval |-> NoRetrieval, stream |-> <<>>,
           clear |-> "none", thrownAt |-> "none", ret |-> NoRet]

-----------------------------------------------------------------------------
(* Initial state: the object as constructed, and the world around it *)

InitStores(v) ==
    IF v = "memory" THEN { Absent }
    ELSE { Absent, EmptyStore, Populated(v, KbFull), Populated(v, KbOld) }

\* What a run finds when the store was made for another embedding model; a
\* ChromaDB collection takes its dimension from its first records.
SchemaStores(v) ==
    IF v = "memory" THEN { Absent }
    ELSE IF v = "chroma" THEN { Mismatched(Populated(v, KbFull)) }
    ELSE { Mismatched(Populated(v, KbFull)), Mismatched(EmptyStore) }

InitKbs == { [exists |-> FALSE, folders |-> <<>>],
             [exists |-> TRUE, folders |-> KbFull] }

Init ==
    /\ variant \in Variants
    /\ env \in Envs
    /\ linesLeft = (CASE env.kind = "short" -> MaxLines
                      [] env.kind = "long" -> MaxLinesLong
                      [] env.kind \in {"startup", "schema"} -> MaxLinesStartup
                      [] env.kind = "bulk" -> MaxLinesBulk
                      [] env.kind = "restart" -> 0)
    /\ failuresLeft = MaxFailures
    /\ strayLeft = (IF env.kind = "short" THEN MaxStray ELSE 0)
    /\ kb \in (IF env.kind \in {"short", "startup"} THEN InitKbs
               ELSE IF env.kind = "schema" THEN { [exists |-> TRUE, folders |-> KbFull] }
               ELSE IF env.kind \in {"bulk", "restart"}
               THEN { [exists |-> TRUE, folders |-> KbBulk] }
               ELSE { [exists |-> TRUE, folders |-> KbFull] })
    /\ store \in (IF env.kind \in {"short", "startup"} THEN InitStores(variant)
                  ELSE IF env.kind = "schema" THEN SchemaStores(variant)
                  ELSE IF env.kind = "bulk"
                  THEN (IF variant = "memory" THEN { Absent } ELSE { Absent, EmptyStore })
                  ELSE IF env.kind = "restart" THEN { Absent }
                  ELSE IF variant = "memory" THEN { Absent }
                  ELSE { Populated(variant, KbFull) })
    /\ handle = 0
    /\ chatHistory = <<>>
    /\ isInitialized = FALSE
    /\ documentCount = 0
    /\ mainPc = "start"
    /\ exited = FALSE
    /\ exitCode = 0
    /\ rl = "none"
    /\ pending = FALSE
    /\ cb = BlankCb
    /\ activeChats = 0
    /\ b = IdleBuild
    /\ appended = <<>>
    /\ stdout = <<>>
    /\ ev = <<>>
    /\ note = NoNote
    /\ stats = [asked |-> 0, failed |-> 0, commands |-> 0, runs |-> 1]
    /\ reqs = {}

-----------------------------------------------------------------------------
(* Outcomes of an external call *)

\* The call fails for a reason of its own (network, rate limit, ...).
Fails == failuresLeft > 0 /\ failuresLeft' = failuresLeft - 1
Succeeds == failuresLeft' = failuresLeft

Running == ~exited

\* The OpenAI API rejects every request made with the placeholder key.
KeyRejected == OPENAI_API_KEY(variant, env.creds) = "placeholder"

\* A request to the OpenAI API is answered, or fails.
Answered == Succeeds /\ ~KeyRejected
Rejected == IF KeyRejected THEN Succeeds ELSE Fails

\* Variant of InitFails: the error is logged and main() goes on.
InitFailsLogged ==
    /\ mainPc' = "finish"
    /\ exited' = exited
    /\ exitCode' = exitCode

\* main()'s catch: process.exit(1).
InitFails ==
    /\ mainPc' = "failed"
    /\ exited' = TRUE
    /\ exitCode' = 1

\* chat() returns r to the callback that awaits it.
ChatReturns(r) ==
    /\ cb' = [BlankCb EXCEPT !.pc = "returned", !.message = cb.message, !.ret = r]
    /\ activeChats' = activeChats - 1

-----------------------------------------------------------------------------
(* createKnowledgeBase: loadDocuments, createTextChunks, createVectorStore *)

\* createKnowledgeBase returns to its caller: initialize or rebuildKnowledgeBase.
BuildReturns ==
    IF b.caller = "init"
    THEN /\ mainPc' = "finish"
         /\ UNCHANGED <<exited, exitCode, cb, activeChats, note>>
    ELSE /\ ChatReturns(Ret("rebuilt", <<>>))
         /\ note' = [note EXCEPT !.ret = Ret("rebuilt", <<>>)]
         /\ UNCHANGED <<mainPc, exited, exitCode>>

\* createKnowledgeBase throws: initialize rethrows to main, chat() catches.
BuildThrows ==
    IF b.caller = "init"
    THEN /\ InitFails
         /\ UNCHANGED <<cb, activeChats, note>>
    ELSE /\ ChatReturns(Ret("apology", <<>>))
         /\ note' = [note EXCEPT !.ret = Ret("apology", <<>>), !.thrownAt = "build"]
         /\ UNCHANGED <<mainPc, exited, exitCode>>

\* The requests issued so far during initialize, `kinds` added; a build run
\* by rebuild adds nothing.
Issued(caller, kinds) == IF caller = "init" THEN reqs \cup kinds ELSE reqs

\* A create request, marked when what it creates exists already.
CreateKind == IF store.exists THEN "createExisting" ELSE "create"

\* `fresh` remembers whether the build started on a store without records.
StartBuild(caller) ==
    [pc |-> "load", caller |-> caller, chunks |-> <<>>, allLoaded |-> TRUE,
     fresh |-> (store.recs = {}), i |-> 0, buf |-> <<>>, failedAt |-> "none",
     sent |-> <<>>, bad |-> {}, rootAbsent |-> FALSE]

\* Variant of Loaded: loading stops at the first folder that fails.
LoadedUntilFailure(folders, bad) ==
    SubSeq(folders, 1, IF bad = {} THEN Len(folders)
                       ELSE (CHOOSE i \in bad : \A j \in bad : i <= j) - 1)

\* The folders that loaded, in order.
Loaded(folders, bad) ==
    LET keep == { i \in 1..Len(folders) : i \notin bad }
        F[i \in 0..Len(folders)] ==
            IF i = 0 THEN <<>>
            ELSE IF i \in keep THEN Append(F[i - 1], folders[i]) ELSE F[i - 1]
    IN  F[Len(folders)]

\* loadDocuments and createTextChunks, up to the first embedding request.
BuildLoad ==
    /\ Running
    /\ b.pc = "load"
    /\ IF variant \in Remote /\ ~kb.exists
       THEN \* createExampleKnowledgeBase, then an empty build
            /\ kb' = [exists |-> TRUE, folders |-> KbExample]
            /\ b' = [b EXCEPT !.pc = "idle", !.chunks = <<>>, !.allLoaded = TRUE,
                              !.rootAbsent = TRUE]
            /\ BuildReturns
            /\ UNCHANGED failuresLeft
       ELSE \E bad \in SUBSET (1..Len(kb.folders)) :
            /\ Cardinality(bad) <= failuresLeft
            /\ failuresLeft' = failuresLeft - Cardinality(bad)
            /\ kb' = kb
            /\ IF variant = "memory"
               THEN \* no try/catch around loader.load(): a folder that fails aborts
                    IF bad # {}
                    THEN b' = [b EXCEPT !.pc = "idle", !.failedAt = "load", !.bad = bad,
                                           !.rootAbsent = ~kb.exists]
                         /\ BuildThrows
                    ELSE /\ b' = [b EXCEPT !.pc = "fromDocuments",
                                           !.chunks = ChunksOf(kb.folders),
                                           !.rootAbsent = ~kb.exists]
                         /\ UNCHANGED <<mainPc, exited, exitCode, cb, activeChats, note>>
               ELSE LET chunks == ChunksOf(Loaded(kb.folders, bad))
                    IN  IF chunks = <<>>
                        THEN /\ b' = [b EXCEPT !.pc = "idle", !.chunks = <<>>,
                                               !.allLoaded = (bad = {}), !.bad = bad]
                             /\ BuildReturns
                        ELSE /\ b' = [b EXCEPT !.pc = "embed", !.chunks = chunks,
                                               !.allLoaded = (bad = {}), !.bad = bad]
                             /\ UNCHANGED <<mainPc, exited, exitCode, cb,
                                            activeChats, note>>
    /\ reqs' = Issued(b.caller, {"load"})
    /\ UNCHANGED <<variant, env, linesLeft, strayLeft, store, handle, chatHistory,
                   isInitialized, documentCount, rl, pending, appended, stdout, ev, stats>>

\* Variant of BatchComplete: the batch is sent while its last embedding is
\* still to be requested.
BatchEarly(i, n) == i % BatchSize = BatchSize - 1 \/ i = n

\* Variant of BatchComplete: every chunk is sent on its own.
BatchEvery(i, n) == i >= 1 /\ i <= n

\* The batch of chunk i is complete once i chunks are embedded.
BatchComplete(i, n) == i % BatchSize = 0 \/ i = n

\* getEmbedding for the next chunk of the build.
BuildEmbed ==
    /\ Running
    /\ b.pc = "embed"
    /\ \/ /\ Answered
          /\ LET i == b.i + 1
                 rec == RecordOf(variant, b.chunks[i], b.i)
                 next == IF variant = "lancedb"
                         THEN IF i = Len(b.chunks) THEN "createTable" ELSE "embed"
                         ELSE IF BatchComplete(i, Len(b.chunks)) THEN "upsert" ELSE "embed"
             IN  b' = [b EXCEPT !.i = i, !.buf = Append(b.buf, rec), !.pc = next]
          /\ UNCHANGED <<mainPc, exited, exitCode, cb, activeChats, note>>
       \/ /\ Rejected
          /\ b' = [b EXCEPT !.pc = "idle", !.buf = <<>>, !.failedAt = "embed"]
          /\ BuildThrows
    /\ reqs' = Issued(b.caller, {"embed"})
    /\ UNCHANGED <<variant, env, linesLeft, strayLeft, kb, store, handle, chatHistory,
                   isInitialized, documentCount, rl, pending, appended, stdout, ev, stats>>

\* index.upsert(vectors) / collection.add(...) for one batch.
BuildUpsert ==
    /\ Running
    /\ b.pc = "upsert"
    /\ \/ /\ Succeeds
          /\ HandleValid /\ DimMatches
          /\ store' = [store EXCEPT !.recs =
                          IF variant = "pinecone" THEN Upsert(store.recs, b.buf)
                          ELSE AddNew(store.recs, b.buf)]
          /\ IF b.i = Len(b.chunks)
             THEN /\ documentCount' = Len(b.chunks)
                  /\ b' = [b EXCEPT !.pc = "idle", !.buf = <<>>,
                                         !.sent = Append(@, Len(b.buf))]
                  /\ BuildReturns
             ELSE /\ documentCount' = documentCount
                  /\ b' = [b EXCEPT !.pc = "embed", !.buf = <<>>,
                                         !.sent = Append(@, Len(b.buf))]
                  /\ UNCHANGED <<mainPc, exited, exitCode, cb, activeChats, note>>
       \/ /\ IF HandleValid /\ DimMatches THEN Fails ELSE Succeeds
          /\ b' = [b EXCEPT !.pc = "idle", !.buf = <<>>, !.failedAt = "upsert"]
          /\ BuildThrows
          /\ UNCHANGED <<store, documentCount>>
    /\ reqs' = Issued(b.caller, {"insert"})
    /\ UNCHANGED <<variant, env, linesLeft, strayLeft, kb, handle, chatHistory,
                   isInitialized, rl, pending, appended, stdout, ev, stats>>

\* db.createTable(TABLE_NAME, data): rejects when the table exists.
BuildCreateTable ==
    /\ Running
    /\ b.pc = "createTable"
    /\ \/ /\ Succeeds
          /\ ~store.exists
          /\ store' = [exists |-> TRUE, gen |-> store.gen + 1, recs |-> Range(b.buf),
                       dim |-> EmbeddingDim]
          /\ handle' = store.gen + 1
          /\ documentCount' = Len(b.buf)
          /\ b' = [b EXCEPT !.pc = "idle", !.buf = <<>>, !.sent = <<Len(b.buf)>>]
          /\ BuildReturns
       \/ /\ IF store.exists THEN Succeeds ELSE Fails
          /\ b' = [b EXCEPT !.pc = "idle", !.buf = <<>>, !.failedAt = "createTable"]
          /\ BuildThrows
          /\ UNCHANGED <<store, handle, documentCount>>
    /\ reqs' = Issued(b.caller, {CreateKind, "insert"})
    /\ UNCHANGED <<variant, env, linesLeft, strayLeft, kb, chatHistory,
                   isInitialized, rl, pending, appended, stdout, ev, stats>>

\* MemoryVectorStore.fromDocuments(chunks, embeddings): embeds and stores.
BuildFromDocuments ==
    /\ Running
    /\ b.pc = "fromDocuments"
    /\ \/ /\ IF b.chunks = <<>> THEN Succeeds ELSE Answered
          /\ store' = [exists |-> TRUE, gen |-> store.gen + 1,
                       recs |-> { RecordOf(variant, b.chunks[i], i - 1) :
                                    i \in 1..Len(b.chunks) },
                       dim |-> EmbeddingDim]
          /\ handle' = store.gen + 1
          /\ b' = [b EXCEPT !.pc = "idle", !.sent = <<Len(b.chunks)>>]
          /\ reqs' = Issued(b.caller, IF b.chunks = <<>> THEN {} ELSE {"embed", "insert"})
          /\ BuildReturns
       \/ /\ IF b.chunks = <<>> THEN Fails ELSE Rejected
          /\ b' = [b EXCEPT !.pc = "idle", !.failedAt = "fromDocuments"]
          /\ reqs' = Issued(b.caller, IF b.chunks = <<>> THEN {} ELSE {"embed"})
          /\ BuildThrows
          /\ UNCHANGED <<store, handle>>
    /\ UNCHANGED <<variant, env, linesLeft, strayLeft, kb, chatHistory,
                   isInitialized, documentCount, rl, pending, appended, stdout, ev, stats>>

-----------------------------------------------------------------------------
(* main() and initialize() *)

loopFrame == <<rl, pending, cb, activeChats, appended, stdout, ev, note, chatHistory,
               linesLeft, strayLeft, stats>>

\* initialize() up to its first await.
InitializeStart ==
    /\ Running
    /\ mainPc = "start"
    /\ IF ~OpenAIKeyAccepted(variant, env.creds)
       THEN InitFails /\ b' = b
       ELSE /\ IF variant = "memory"
               THEN mainPc' = "build" /\ b' = StartBuild("init")
               ELSE mainPc' = "connect" /\ b' = b
            /\ UNCHANGED <<exited, exitCode>>
    /\ UNCHANGED <<variant, env, failuresLeft, kb, store, handle, isInitialized,
                   documentCount, reqs>>
    /\ UNCHANGED loopFrame

\* initializePinecone / initializeChroma (heartbeat) / initializeLanceDB (connect).
Connect ==
    /\ Running
    /\ mainPc = "connect"
    /\ IF variant = "pinecone"
       THEN \* the key check and `new Pinecone(...)`: no request is sent
            /\ Succeeds
            /\ reqs' = reqs
            /\ IF StoreKeyAccepted(variant, env.creds)
               THEN mainPc' = "checkExists" /\ UNCHANGED <<exited, exitCode>>
               ELSE InitFails
       ELSE /\ reqs' = reqs \cup {"connect"}
            /\ \/ /\ Succeeds
                  /\ mainPc' = "checkExists"
                  /\ UNCHANGED <<exited, exitCode>>
               \/ /\ Fails
                  /\ InitFails
    /\ UNCHANGED <<variant, env, kb, store, handle, isInitialized, documentCount, b>>
    /\ UNCHANGED loopFrame

\* Where initialize goes once checkIndexExists / checkCollectionExists /
\* checkTableExists has answered.
AfterCheck(found) ==
    IF found THEN "loadExisting"
    ELSE IF variant = "pinecone" THEN "createIndex"
    ELSE IF variant = "chroma" THEN "createCollection"
    ELSE "build"

\* The existence check; an error inside it is caught and answers false.
CheckExists ==
    /\ Running
    /\ mainPc = "checkExists"
    /\ \E found \in BOOLEAN :
          /\ \/ Succeeds /\ found = store.exists
             \/ Fails /\ found = FALSE
          /\ mainPc' = AfterCheck(found)
          /\ b' = IF AfterCheck(found) = "build" THEN StartBuild("init") ELSE b
    /\ reqs' = Issued("init", {"exists"})
    /\ UNCHANGED <<variant, env, kb, store, handle, isInitialized, documentCount,
                   exited, exitCode>>
    /\ UNCHANGED loopFrame

\* pinecone.createIndex, then the wait until describeIndex reports ready.
CreateIndex ==
    /\ Running
    /\ mainPc = "createIndex"
    /\ \/ /\ Succeeds
          /\ ~store.exists
          /\ store' = [exists |-> TRUE, gen |-> store.gen + 1, recs |-> {},
                       dim |-> EmbeddingDim]
          /\ mainPc' = "waitReady"
          /\ UNCHANGED <<exited, exitCode>>
       \/ /\ IF store.exists THEN Succeeds ELSE Fails
          /\ InitFails
          /\ store' = store
    /\ reqs' = Issued("init", {CreateKind})
    /\ UNCHANGED <<variant, env, kb, handle, isInitialized, documentCount, b>>
    /\ UNCHANGED loopFrame

\* One pass of `while (!isReady)`: describeIndex reports ready, reports not
\* ready yet, or throws.
WaitReady ==
    /\ Running
    /\ mainPc = "waitReady"
    /\ \/ /\ Succeeds
          /\ handle' = store.gen
          /\ mainPc' = "count"
          /\ UNCHANGED <<exited, exitCode>>
       \/ /\ Succeeds
          /\ handle' = handle
          /\ mainPc' = "waitSleep"
          /\ UNCHANGED <<exited, exitCode>>
       \/ /\ Fails
          /\ InitFails
          /\ handle' = handle
    /\ reqs' = Issued("init", {"ready"})
    /\ UNCHANGED <<variant, env, kb, store, isInitialized, documentCount, b>>
    /\ UNCHANGED loopFrame

\* The five seconds between two describeIndex requests have passed.
WaitSleep ==
    /\ Running
    /\ mainPc = "waitSleep"
    /\ mainPc' = "waitReady"
    /\ UNCHANGED <<variant, env, failuresLeft, kb, store, handle, isInitialized,
                   documentCount, exited, exitCode, b, reqs>>
    /\ UNCHANGED loopFrame

\* loadExistingIndex / loadExistingCollection / loadExistingTable.
LoadExisting ==
    /\ Running
    /\ mainPc = "loadExisting"
    /\ \/ /\ Succeeds
          /\ store.exists
          /\ handle' = store.gen
          /\ documentCount' = Count(store)
          /\ mainPc' = IF variant = "lancedb" THEN "finish" ELSE "count"
          /\ UNCHANGED <<exited, exitCode>>
       \/ /\ IF store.exists THEN Fails ELSE Succeeds
          /\ InitFails
          /\ handle' = IF variant = "pinecone" THEN store.gen ELSE handle
          /\ documentCount' = documentCount
    /\ reqs' = Issued("init", {"open"})
    /\ UNCHANGED <<variant, env, kb, store, isInitialized, b>>
    /\ UNCHANGED loopFrame

\* describeIndexStats / collection.count in initialize, and the decision to build.
CountCheck ==
    /\ Running
    /\ mainPc = "count"
    /\ \/ /\ Succeeds
          /\ HandleValid
          /\ documentCount' = Count(store)
          /\ IF Count(store) = 0
             THEN mainPc' = "build" /\ b' = StartBuild("init")
             ELSE mainPc' = "finish" /\ b' = b
          /\ UNCHANGED <<exited, exitCode>>
       \/ /\ IF HandleValid THEN Fails ELSE Succeeds
          /\ InitFails
          /\ UNCHANGED <<documentCount, b>>
    /\ reqs' = Issued("init", {"count"})
    /\ UNCHANGED <<variant, env, kb, store, handle, isInitialized>>
    /\ UNCHANGED loopFrame

\* chromaClient.createCollection: rejects when the collection exists.
CollectionCreated ==
    [exists |-> TRUE, gen |-> store.gen + 1, recs |-> {}, dim |-> EmbeddingDim]

CreateCollection ==
    /\ Running
    /\ mainPc = "createCollection"
    /\ \/ /\ Succeeds
          /\ ~store.exists
          /\ store' = CollectionCreated
          /\ handle' = store.gen + 1
          /\ mainPc' = "count"
          /\ UNCHANGED <<exited, exitCode>>
       \/ /\ IF store.exists THEN Succeeds ELSE Fails
          /\ InitFails
          /\ UNCHANGED <<store, handle>>
    /\ reqs' = Issued("init", {CreateKind})
    /\ UNCHANGED <<variant, env, kb, isInitialized, documentCount, b>>
    /\ UNCHANGED loopFrame

\* End of initialize, then startTerminalInterface and its first askQuestion().
Finish ==
    /\ Running
    /\ mainPc = "finish"
    /\ isInitialized' = (variant \in Remote)
    /\ mainPc' = "loop"
    /\ rl' = "open"
    /\ pending' = TRUE
    /\ UNCHANGED <<reqs, variant, env, linesLeft, failuresLeft, strayLeft, kb, store, handle,
                   chatHistory, documentCount, exited, exitCode, cb, activeChats, b,
                   appended, stdout, ev, note, stats>>

-----------------------------------------------------------------------------
(* The conversation: history, prompt, status report *)

Turn(role, content) == [role |-> role, content |-> content, n |-> Len(appended) + 1]

\* Variant of TrimHistory that keeps the oldest turns: slice(0, 20).
TrimHistoryHead(h) ==
    IF Len(h) > HistoryCap THEN SubSeq(h, 1, HistoryCap) ELSE h

\* this.chatHistory.slice(-20), applied when the length exceeds 20.
TrimHistory(h) ==
    IF Len(h) > HistoryCap THEN SubSeq(h, Len(h) - HistoryCap + 1, Len(h)) ELSE h

\* One line per turn, role-labelled.
formatChatHistory(h) ==
    [i \in 1..Len(h) |->
        << IF h[i].role = "user" THEN "Human" ELSE "Assistant", h[i].content >>]

\* `Document i (doc_type) - Source: source:\n text`; the in-memory script
\* prints no source.
Context(v, docs) ==
    [i \in 1..Len(docs) |->
        [n |-> i, doc_type |-> docs[i].doc_type,
         source |-> IF v = "memory" THEN "" ELSE docs[i].source,
         text |-> <<docs[i].doc_type, docs[i].k>>]]

\* `Previous conversation:` and the transcript, or the empty string.
historyContext(h) ==
    IF Len(h) > 0 THEN [section |-> TRUE, lines |-> formatChatHistory(h)]
    ELSE [section |-> FALSE, lines |-> <<>>]

Messages(v, h, docs, message) ==
    << [role |-> "system",
        content |-> [history |-> historyContext(h),
                     context |-> Context(v, docs)]],
       [role |-> "user", content |-> message] >>

RECURSIVE ById(_)
ById(S) ==
    IF S = {} THEN <<>>
    ELSE LET m == CHOOSE r \in S : \A x \in S : r.id.i <= x.id.i
         IN  <<m>> \o ById(S \ {m})

\* The nearest `limit` records; the backend's ranking is taken to be id order.
QueryResult(recs, limit) ==
    ById({ r \in recs : Cardinality({ x \in recs : x.id.i < r.id.i }) < limit })

\* Variant of getStatus that reports the questions asked, not the turns held.
getStatusAsked(docs) ==
    [kind |-> "status", text |-> <<>>,
     report |-> [backend |-> TRUE, available |-> handle # 0, docs |-> docs,
                 history |-> stats.asked, model |-> MODEL(variant)]]

\* getStatus: the report, given what the count request answered.
getStatus(docs) ==
    [kind |-> "status", text |-> <<>>,
     report |-> [backend |-> TRUE, available |-> handle # 0, docs |-> docs,
                 history |-> Len(chatHistory), model |-> MODEL(variant)]]

-----------------------------------------------------------------------------
(* The code's decisions *)

\* startTerminalInterface: exit/quit, the empty line, everything else.
loopCase(message) ==
    IF toLowerCase(message) = W_exit \/ toLowerCase(message) = W_quit THEN "exit"
    ELSE IF message = <<>> THEN "empty"
    ELSE "chat"

\* Variant of chatCase that compares the text as typed, without toLowerCase.
chatCaseExact(v, message) ==
    IF v \in Remote /\ message = W_rebuild THEN "rebuild"
    ELSE IF v \in Remote /\ message = W_status THEN "status"
    ELSE "question"

\* chat(): the special commands; index.js has none.
chatCase(v, message) ==
    IF v \in Remote /\ toLowerCase(message) = W_rebuild THEN "rebuild"
    ELSE IF v \in Remote /\ toLowerCase(message) = W_status THEN "status"
    ELSE "question"

\* Variant of pendingDuringChat: askQuestion() called without awaiting chat().
pendingDuringChatAlways == TRUE

\* askQuestion() is called after `await this.chat(message)`: no prompt is
\* pending while chat() runs.
pendingDuringChat == FALSE

\* Variant of retrievalCatches: no script catches inside retrieval.
retrievalCatchesNone(v) == FALSE

\* retrieveRelevantDocuments has its own try/catch returning [] (not index.js).
retrievalCatches(v) == v \in Remote

\* rebuildKnowledgeBase wraps the clearing call in its own try/catch
\* (deleteCollection, dropTable) or does not (index.deleteAll).
toleratesClearError(v) == v \in {"chroma", "lancedb"}

\* What the callback writes of chat()'s result: `await this.chat(message)`
\* drops it.
Printed(r) == <<>>

\* Nothing to clear: no vectors in the index, no collection, no table.
TargetAbsent(v, st) == IF v = "pinecone" THEN st.recs = {} ELSE ~st.exists

\* Variant of Cleared: the clearing call is skipped.
ClearedNothing(v, st) == st

\* index.deleteAll / deleteCollection / dropTable, when the backend accepts it.
Cleared(v, st) ==
    IF v = "pinecone" THEN [st EXCEPT !.recs = {}]
    ELSE [st EXCEPT !.exists = FALSE, !.recs = {}, !.dim = 0]

-----------------------------------------------------------------------------
(* The readline loop and chat() *)

\* Variant of AssembleAndAsk that pushes the user turn before it formats the
\* history.
AssemblePushFirst(message, docs, before) ==
    /\ cb' = [cb EXCEPT !.pc = "completion", !.message = message,
                        !.relevantDocs = docs,
                        !.messages = Messages(variant,
                                              Append(chatHistory, Turn("user", message)),
                                              docs, message)]
    /\ chatHistory' = Append(chatHistory, Turn("user", message))
    /\ appended' = Append(appended, Turn("user", message))
    /\ ev' = before \o <<"pushUser", "prompt">>

\* Variant of AssembleAndAsk that leaves the user turn out of the history.
AssembleNoPush(message, docs, before) ==
    /\ cb' = [cb EXCEPT !.pc = "completion", !.message = message,
                        !.relevantDocs = docs,
                        !.messages = Messages(variant, chatHistory, docs, message)]
    /\ chatHistory' = chatHistory
    /\ appended' = appended
    /\ ev' = before \o <<"prompt">>

\* Prompt assembly, the push of the user turn and the completion request.
AssembleAndAsk(message, docs, before) ==
    /\ cb' = [cb EXCEPT !.pc = "completion", !.message = message,
                        !.relevantDocs = docs,
                        !.messages = Messages(variant, chatHistory, docs, message)]
    /\ chatHistory' = Append(chatHistory, Turn("user", message))
    /\ appended' = Append(appended, Turn("user", message))
    /\ ev' = before \o <<"prompt", "pushUser">>

\* A line arrives while a question is pending: the callback runs up to its
\* first await. Nothing is left of the createKnowledgeBase() call that
\* returned before.
Line ==
    /\ Running
    /\ rl = "open"
    /\ pending
    /\ linesLeft > 0
    /\ \E l \in env.tty :
        LET message == trim(l)
            what == IF loopCase(message) = "chat" THEN chatCase(variant, message)
                    ELSE loopCase(message)
        IN  /\ linesLeft' = linesLeft - 1
            /\ stdout' = <<>>
            /\ b' = IdleBuild
            /\ CASE what = "exit" ->
                    /\ rl' = "closed"
                    /\ pending' = FALSE
                    /\ note' = [NoNote EXCEPT !.line = l, !.did = what, !.h0 = Len(appended)]
                    /\ ev' = <<>>
                    /\ UNCHANGED <<cb, activeChats, chatHistory, appended, stats>>
                 [] what = "empty" ->
                    /\ pending' = TRUE
                    /\ note' = [NoNote EXCEPT !.line = l, !.did = what, !.h0 = Len(appended)]
                    /\ ev' = <<>>
                    /\ UNCHANGED <<rl, cb, activeChats, chatHistory, appended, stats>>
                 [] what = "rebuild" ->
                    /\ pending' = pendingDuringChat
                    /\ activeChats' = activeChats + 1
                    /\ cb' = [BlankCb EXCEPT !.pc = "rebuild_clear", !.message = message]
                    /\ note' = [NoNote EXCEPT !.line = l, !.did = what, !.h0 = Len(appended)]
                    /\ ev' = <<>>
                    /\ stats' = [stats EXCEPT !.commands = @ + 1]
                    /\ UNCHANGED <<rl, chatHistory, appended>>
                 [] what = "status" ->
                    /\ pending' = pendingDuringChat
                    /\ ev' = <<>>
                    /\ IF variant = "lancedb" \/ handle = 0
                       THEN LET r == getStatus(IF variant = "lancedb"
                                               THEN [state |-> "ok", n |-> documentCount]
                                               ELSE [state |-> "na", n |-> 0])
                            IN  /\ cb' = [BlankCb EXCEPT !.pc = "returned",
                                                         !.message = message, !.ret = r]
                                /\ activeChats' = activeChats
                                /\ note' = [NoNote EXCEPT !.line = l, !.did = what,
                                                          !.h0 = Len(appended), !.ret = r]
                       ELSE /\ cb' = [BlankCb EXCEPT !.pc = "status", !.message = message]
                            /\ activeChats' = activeChats + 1
                            /\ note' = [NoNote EXCEPT !.line = l, !.did = what,
                                                      !.h0 = Len(appended)]
                    /\ stats' = [stats EXCEPT !.commands = @ + 1]
                    /\ UNCHANGED <<rl, chatHistory, appended>>
                 [] what = "question" ->
                    /\ pending' = pendingDuringChat
                    /\ activeChats' = activeChats + 1
                    /\ note' = [NoNote EXCEPT !.line = l, !.did = what, !.h0 = Len(appended),
                                              !.retrieval =
                                                  IF variant \in Remote /\ handle = 0
                                                  THEN Retrieved("noHandle", <<>>)
                                                  ELSE NoRetrieval]
                    /\ stats' = [stats EXCEPT !.asked = @ + 1]
                    /\ IF variant \in Remote /\ handle = 0
                       THEN AssembleAndAsk(message, <<>>, <<>>)
                       ELSE /\ cb' = [BlankCb EXCEPT !.pc = "embed", !.message = message]
                            /\ ev' = <<>>
                            /\ UNCHANGED <<chatHistory, appended>>
                    /\ UNCHANGED <<rl>>
    /\ UNCHANGED <<reqs, variant, env, failuresLeft, strayLeft, kb, store, handle,
                   isInitialized, documentCount, mainPc, exited, exitCode>>

\* A line typed while no question is pending: readline has no listener for it.
StrayLine ==
    /\ Running
    /\ rl = "open"
    /\ ~pending
    /\ strayLeft > 0
    /\ strayLeft' = strayLeft - 1
    /\ UNCHANGED <<reqs, variant, env, linesLeft, failuresLeft, kb, store, handle, chatHistory,
                   isInitialized, documentCount, mainPc, exited, exitCode, rl, pending,
                   cb, activeChats, b, appended, stdout, ev, note, stats>>

chatFrame == <<variant, env, linesLeft, strayLeft, kb, isInitialized, mainPc, exited,
               exitCode, rl, pending, reqs>>

\* The turn ends in chat()'s catch block.
TurnFails(n) ==
    /\ ChatReturns(Ret("apology", <<>>))
    /\ note' = [n EXCEPT !.ret = Ret("apology", <<>>)]
    /\ stats' = [stats EXCEPT !.failed = @ + 1]

\* Variant of Embed: a failed embedding request is issued again.
EmbedRetry ==
    /\ Running
    /\ cb.pc = "embed"
    /\ \/ /\ Answered
          /\ cb' = [cb EXCEPT !.pc = "query"]
          /\ UNCHANGED note
       \/ /\ Rejected
          /\ Len(ev) < 2
          /\ cb' = cb
          /\ note' = [note EXCEPT !.embedFailed = TRUE]
    /\ ev' = Append(ev, "embed")
    /\ UNCHANGED <<chatHistory, appended, activeChats, stats>>
    /\ UNCHANGED chatFrame
    /\ UNCHANGED <<store, handle, documentCount, b, stdout>>

\* getEmbedding(query) answers.
Embed ==
    /\ Running
    /\ cb.pc = "embed"
    /\ \/ /\ Answered
          /\ cb' = [cb EXCEPT !.pc = "query"]
          /\ ev' = Append(ev, "embed")
          /\ UNCHANGED <<chatHistory, appended, activeChats, note, stats>>
       \/ /\ Rejected
          /\ IF retrievalCatches(variant)
             THEN /\ AssembleAndAsk(cb.message, <<>>, Append(ev, "embed"))
                  /\ note' = [note EXCEPT !.embedFailed = TRUE,
                                           !.retrieval = Retrieved("embedFailed", <<>>)]
                  /\ UNCHANGED <<activeChats, stats>>
             ELSE /\ TurnFails([note EXCEPT !.embedFailed = TRUE,
                                            !.retrieval = RetrievalThrew("embedFailed")])
                  /\ ev' = Append(ev, "embed")
                  /\ UNCHANGED <<chatHistory, appended>>
    /\ UNCHANGED chatFrame
    /\ UNCHANGED <<store, handle, documentCount, b, stdout>>

\* The store's nearest-neighbour query answers.
Query ==
    /\ Running
    /\ cb.pc = "query"
    /\ \/ /\ Succeeds
          /\ HandleValid /\ DimMatches
          /\ AssembleAndAsk(cb.message, QueryResult(store.recs, TopK),
                            Append(ev, "query"))
          /\ note' = [note EXCEPT !.retrieval =
                          Retrieved("answered", QueryResult(store.recs, TopK))]
          /\ UNCHANGED <<activeChats, stats>>
       \/ /\ variant \in Remote
          /\ IF HandleValid /\ DimMatches THEN Fails ELSE Succeeds
          /\ IF retrievalCatches(variant)
             THEN /\ AssembleAndAsk(cb.message, <<>>, Append(ev, "query"))
                  /\ note' = [note EXCEPT !.retrieval = Retrieved("queryFailed", <<>>)]
                  /\ UNCHANGED <<activeChats, stats>>
             ELSE /\ TurnFails([note EXCEPT !.retrieval = RetrievalThrew("queryFailed")])
                  /\ ev' = Append(ev, "query")
                  /\ UNCHANGED <<chatHistory, appended>>
    /\ UNCHANGED chatFrame
    /\ UNCHANGED <<store, handle, documentCount, b, stdout>>

\* openai.chat.completions.create answers: a stream, or an error.
Completion ==
    /\ Running
    /\ cb.pc = "completion"
    /\ \/ /\ Answered
          /\ \E s \in env.streams :
                /\ cb' = [cb EXCEPT !.pc = "stream", !.stream = s, !.si = 0,
                                    !.fullResponse = <<>>]
                /\ note' = [note EXCEPT !.stream = s]
          /\ UNCHANGED <<activeChats, stats>>
       \/ /\ Rejected
          /\ TurnFails(note)
    /\ ev' = Append(ev, "completion")
    /\ UNCHANGED chatFrame
    /\ UNCHANGED <<store, handle, documentCount, b, stdout, chatHistory, appended>>

\* Variant of StreamChunk: the fragments are accumulated and not written.
StreamChunkSilent ==
    /\ Running
    /\ cb.pc = "stream"
    /\ cb.si < Len(cb.stream)
    /\ \/ /\ Succeeds
          /\ cb' = [cb EXCEPT !.si = @ + 1,
                              !.fullResponse = @ \o cb.stream[cb.si + 1]]
          /\ UNCHANGED <<activeChats, note, stats>>
       \/ /\ Fails
          /\ TurnFails(note)
    /\ stdout' = stdout
    /\ UNCHANGED chatFrame
    /\ UNCHANGED <<store, handle, documentCount, b, chatHistory, appended, ev>>

\* One chunk of the stream arrives, or the stream breaks.
StreamChunk ==
    /\ Running
    /\ cb.pc = "stream"
    /\ cb.si < Len(cb.stream)
    /\ \/ /\ Succeeds
          /\ LET content == cb.stream[cb.si + 1]
             IN  IF content # <<>>
                 THEN /\ stdout' = Append(stdout, Ret("fragment", content))
                      /\ cb' = [cb EXCEPT !.si = @ + 1,
                                          !.fullResponse = @ \o content]
                 ELSE /\ stdout' = stdout
                      /\ cb' = [cb EXCEPT !.si = @ + 1]
          /\ UNCHANGED <<activeChats, note, stats>>
       \/ /\ Fails
          /\ TurnFails(note)
          /\ stdout' = stdout
    /\ UNCHANGED chatFrame
    /\ UNCHANGED <<store, handle, documentCount, b, chatHistory, appended, ev>>

\* The stream is exhausted: push the assistant turn, trim, return the answer.
StreamEnd ==
    /\ Running
    /\ cb.pc = "stream"
    /\ cb.si = Len(cb.stream)
    /\ chatHistory' = TrimHistory(Append(chatHistory, Turn("assistant", cb.fullResponse)))
    /\ appended' = Append(appended, Turn("assistant", cb.fullResponse))
    /\ ev' = ev \o <<"streamEnd", "pushAssistant">>
    /\ ChatReturns(Ret("answer", cb.fullResponse))
    /\ note' = [note EXCEPT !.ret = Ret("answer", cb.fullResponse)]
    /\ UNCHANGED chatFrame
    /\ UNCHANGED <<failuresLeft, store, handle, documentCount, b, stdout, stats>>

\* getStatus: describeIndexStats / collection.count answers.
Status ==
    /\ Running
    /\ cb.pc = "status"
    /\ \E r \in { getStatus([state |-> "ok", n |-> Count(store)]),
                  getStatus([state |-> "error", n |-> 0]) } :
          /\ \/ Succeeds /\ HandleValid /\ r.report.docs.state = "ok"
             \/ (IF HandleValid THEN Fails ELSE Succeeds) /\ r.report.docs.state = "error"
          /\ ChatReturns(r)
          /\ note' = [note EXCEPT !.ret = r]
    /\ UNCHANGED chatFrame
    /\ UNCHANGED <<store, handle, documentCount, b, stdout, chatHistory, appended, ev,
                   stats>>

\* rebuildKnowledgeBase: the clearing call answers.
RebuildClear ==
    /\ Running
    /\ cb.pc = "rebuild_clear"
    /\ \E answer \in {"ok", "notFound", "error"} :
          /\ CASE answer = "ok" ->
                    /\ Succeeds
                    /\ store.exists
                    /\ variant = "pinecone" \/ ~TargetAbsent(variant, store)
                 [] answer = "notFound" ->
                    /\ Succeeds
                    /\ TargetAbsent(variant, store)
                 [] answer = "error" ->
                    /\ Fails
                    /\ ~TargetAbsent(variant, store)
          /\ store' = IF answer = "ok" THEN Cleared(variant, store) ELSE store
          /\ IF answer = "ok" \/ toleratesClearError(variant)
             THEN /\ IF variant = "chroma"
                     THEN cb' = [cb EXCEPT !.pc = "rebuild_create"] /\ b' = b
                     ELSE /\ cb' = [cb EXCEPT !.pc = "rebuild_build"]
                          /\ b' = StartBuild("rebuild")
                  /\ note' = [note EXCEPT !.clear = answer]
                  /\ UNCHANGED activeChats
             ELSE /\ ChatReturns(Ret("apology", <<>>))
                  /\ note' = [note EXCEPT !.clear = answer, !.thrownAt = "clear",
                                           !.ret = Ret("apology", <<>>)]
                  /\ b' = b
    /\ UNCHANGED chatFrame
    /\ UNCHANGED <<handle, documentCount, stdout, chatHistory, appended, ev, stats>>

\* rebuildKnowledgeBase (ChromaDB): createCollection answers.
RebuildCreate ==
    /\ Running
    /\ cb.pc = "rebuild_create"
    /\ \/ /\ Succeeds
          /\ ~store.exists
          /\ store' = CollectionCreated
          /\ handle' = store.gen + 1
          /\ cb' = [cb EXCEPT !.pc = "rebuild_build"]
          /\ b' = StartBuild("rebuild")
          /\ UNCHANGED <<activeChats, note>>
       \/ /\ IF store.exists THEN Succeeds ELSE Fails
          /\ ChatReturns(Ret("apology", <<>>))
          /\ note' = [note EXCEPT !.thrownAt = "create", !.ret = Ret("apology", <<>>)]
          /\ UNCHANGED <<store, handle, b>>
    /\ UNCHANGED chatFrame
    /\ UNCHANGED <<documentCount, stdout, chatHistory, appended, ev, stats>>

\* The callback resumes after `await this.chat(message)` and prompts again.
Resume ==
    /\ Running
    /\ cb.pc = "returned"
    /\ stdout' = stdout \o Printed(cb.ret)
    /\ pending' = TRUE
    /\ cb' = BlankCb
    /\ UNCHANGED <<reqs, variant, env, linesLeft, failuresLeft, strayLeft, kb, store, handle,
                   chatHistory, isInitialized, documentCount, mainPc, exited, exitCode,
                   rl, activeChats, b, appended, ev, note, stats>>

\* rl.close() left nothing to wait for: the process ends.
ProcessEnds ==
    /\ Running
    /\ rl = "closed"
    /\ exited' = TRUE
    /\ exitCode' = 0
    /\ UNCHANGED <<reqs, variant, env, linesLeft, failuresLeft, strayLeft, kb, store, handle,
                   chatHistory, isInitialized, documentCount, mainPc, rl, pending, cb,
                   activeChats, b, appended, stdout, ev, note, stats>>

\* Variant of Signal: the handlers act only once the loop has started.
SignalInLoop ==
    /\ Running
    /\ mainPc = "loop"
    /\ exited' = TRUE
    /\ exitCode' = 0
    /\ UNCHANGED <<reqs, variant, env, linesLeft, failuresLeft, strayLeft, kb, store, handle,
                   chatHistory, isInitialized, documentCount, mainPc, rl, pending, cb,
                   activeChats, b, appended, stdout, ev, note, stats>>

\* SIGINT / SIGTERM: process.exit(0).
Signal ==
    /\ Running
    /\ exited' = TRUE
    /\ exitCode' = 0
    /\ UNCHANGED <<reqs, variant, env, linesLeft, failuresLeft, strayLeft, kb, store, handle,
                   chatHistory, isInitialized, documentCount, mainPc, rl, pending, cb,
                   activeChats, b, appended, stdout, ev, note, stats>>

\* The script is started again after the process has ended: a new object is
\* constructed; the backend's store and the directory are as the last run
\* left them, the in-memory store is gone. Followed in the sessions in which
\* the user types nothing, over the large knowledge base.
Restart ==
    /\ exited
    /\ env.kind = "restart"
    /\ stats.runs < MaxRuns
    /\ store' = IF variant = "memory" THEN Absent ELSE store
    /\ handle' = 0
    /\ chatHistory' = <<>>
    /\ isInitialized' = FALSE
    /\ documentCount' = 0
    /\ mainPc' = "start"
    /\ exited' = FALSE
    /\ exitCode' = 0
    /\ rl' = "none"
    /\ pending' = FALSE
    /\ cb' = BlankCb
    /\ activeChats' = 0
    /\ b' = IdleBuild
    /\ appended' = <<>>
    /\ stdout' = <<>>
    /\ ev' = <<>>
    /\ note' = NoNote
    /\ stats' = [asked |-> 0, failed |-> 0, commands |-> 0, runs |-> stats.runs + 1]
    /\ reqs' = {}
    /\ UNCHANGED <<variant, env, linesLeft, failuresLeft, strayLeft, kb>>

-----------------------------------------------------------------------------

Next ==
    \/ InitializeStart
    \/ Connect
    \/ CheckExists
    \/ CreateIndex
    \/ WaitReady
    \/ WaitSleep
    \/ LoadExisting
    \/ CountCheck
    \/ CreateCollection
    \/ Finish
    \/ BuildLoad
    \/ BuildEmbed
    \/ BuildUpsert
    \/ BuildCreateTable
    \/ BuildFromDocuments
    \/ Line
    \/ StrayLine
    \/ Embed
    \/ Query
    \/ Completion
    \/ StreamChunk
    \/ StreamEnd
    \/ Status
    \/ RebuildClear
    \/ RebuildCreate
    \/ Resume
    \/ ProcessEnds
    \/ Signal
    \/ Restart

Spec == Init /\ [][Next]_vars

\* Every call that is outstanding returns and every timer fires: the process
\* does not stand still while it has a step to take.
LiveSpec == Spec /\ WF_vars(Next)

-----------------------------------------------------------------------------
(* Properties *)

Steps == Range(ev)

\* C1: whenever chat() has returned, chatHistory holds at most 20 turns, also
\* after turns whose completion request or stream failed.
C1_HistoryCapped == activeChats = 0 => Len(chatHistory) <= HistoryCap

\* C2: after successful question turns only, chatHistory is exactly the last
\* min(n, 20) of the n turns appended, in their original order.
C2_LastTwenty ==
    (activeChats = 0 /\ stats.failed = 0) =>
        LET n == Len(appended)
            m == IF n < 20 THEN n ELSE 20
        IN  /\ Len(chatHistory) = m
            /\ \A i \in 1..m : chatHistory[i] = appended[n - m + i]

C2_Witness ==
    /\ activeChats = 0
    /\ stats.failed = 0
    /\ Len(appended) = 22
    /\ chatHistory[1].n = 3

\* C3: at most one chat() invocation is in progress, and a prompt is pending
\* only when none is: the callback has finished with the previous line.
C3_OneChatAtATime ==
    /\ activeChats <= 1
    /\ pending => (activeChats = 0 /\ cb.pc = "idle")

C3_Witness ==
    /\ activeChats = 1
    /\ cb.pc = "stream"
    /\ ~pending
    /\ strayLeft < MaxStray

\* C4 as claimed: no turn is appended to chatHistory before the completion
\* stream of the question turn has finished.
C4_NoTurnBeforeStreamEnd ==
    (note.did = "question" /\ "streamEnd" \notin Steps) => Len(appended) = note.h0

Order == <<"embed", "query", "prompt", "pushUser", "completion", "streamEnd",
           "pushAssistant">>

Rank(e) == CHOOSE i \in 1..Len(Order) : Order[i] = e

\* C4 as amended: the steps of a question turn happen in the order query
\* embedding, store query, prompt assembly, append of the user turn,
\* completion request and stream, append of the assistant turn; the user turn
\* is in chatHistory before the completion request is answered, the assistant
\* turn only once the stream has finished.
C4_StepOrder ==
    IF note.did # "question" THEN ev = <<>>
    ELSE /\ \A i, j \in 1..Len(ev) : i < j => Rank(ev[i]) < Rank(ev[j])
         /\ "query" \in Steps => "embed" \in Steps
         /\ "completion" \in Steps => {"prompt", "pushUser"} \subseteq Steps
         /\ "pushUser" \in Steps <=> "prompt" \in Steps
         /\ "pushAssistant" \in Steps <=> "streamEnd" \in Steps
         /\ "streamEnd" \in Steps => "completion" \in Steps
         /\ cb.pc \in {"embed", "query"} => "prompt" \notin Steps
         /\ cb.pc = "completion" => ("pushUser" \in Steps /\ "completion" \notin Steps)
         /\ cb.pc = "stream" => ("completion" \in Steps /\ "streamEnd" \notin Steps)
         /\ Len(appended) = note.h0 + (IF "pushUser" \in Steps THEN 1 ELSE 0)
                                    + (IF "pushAssistant" \in Steps THEN 1 ELSE 0)
         /\ "pushUser" \in Steps =>
                /\ appended[note.h0 + 1].role = "user"
                /\ appended[note.h0 + 1].content = trim(note.line)
         /\ "pushAssistant" \in Steps => appended[note.h0 + 2].role = "assistant"

C4_Witness ==
    /\ cb.pc = "stream"
    /\ ev = <<"embed", "query", "prompt", "pushUser", "completion">>
    /\ chatHistory[Len(chatHistory)].role = "user"

\* C5 as claimed: a question whose embedding request failed ends with the
\* apology as the result of chat().
C5_EmbedFailureApologises ==
    (note.embedFailed /\ cb.pc = "returned") => cb.ret.kind = "apology"

\* C5 as amended: when the embedding request of a question fails, chat() does
\* not throw and the loop prompts again; in the in-memory script the result is
\* the apology and nothing is appended; in the Pinecone, ChromaDB and LanceDB
\* scripts retrieval yields no documents, the store is not queried and the turn
\* goes on to the completion request, its result being the streamed answer, or
\* the apology when the completion fails too.
C5_EmbedFailureContained ==
    note.embedFailed =>
        /\ note.did = "question"
        /\ "query" \notin Steps
        /\ exited => exitCode = 0
        /\ activeChats = 0 => (cb.pc = "returned" \/ (cb.pc = "idle" /\ pending))
        /\ IF variant = "memory"
           THEN /\ note.ret.kind = "apology"
                /\ Len(appended) = note.h0
                /\ activeChats = 0
           ELSE /\ "prompt" \in Steps
                /\ cb.pc \in {"completion", "stream"} => cb.relevantDocs = <<>>
                /\ activeChats = 0 => note.ret.kind \in {"answer", "apology"}
                /\ note.ret.kind = "apology" => "streamEnd" \notin Steps
                /\ note.ret.kind = "answer" => "streamEnd" \in Steps

C5_Witness ==
    /\ note.embedFailed
    /\ variant \in Remote
    /\ pending
    /\ note.ret.kind = "answer"

\* C6: what chat() returns without streaming it (the apology, the status
\* report, the rebuild confirmation) is on the terminal before the next prompt.
C6_ResultShown ==
    (pending /\ note.ret.kind \in {"apology", "status", "rebuilt"}) =>
        note.ret \in Range(stdout)

\* The case each line of a short session belongs to, by its text.
ExpectedCase(l) ==
    CASE l = <<"E", "x", "i", "t", " ">> -> "exit"
      [] l = <<"q", "u", "i", "t">> -> "exit"
      [] l = <<" ", "R", "e", "b", "u", "i", "l", "d">> -> "rebuild"
      [] l = <<"S", "T", "A", "T", "U", "S">> -> "status"
      [] l = <<" ">> -> "empty"
      [] OTHER -> "question"

\* What handling a line of the given case looks like, from the line's arrival
\* to the next one.
Handled(case) ==
    CASE case = "exit" ->
            /\ rl = "closed" /\ ~pending /\ cb.pc = "idle" /\ activeChats = 0
            /\ ev = <<>> /\ Len(appended) = note.h0
      [] case = "empty" ->
            /\ rl = "open" /\ pending /\ cb.pc = "idle" /\ activeChats = 0
            /\ ev = <<>> /\ Len(appended) = note.h0
      [] case = "rebuild" ->
            /\ ev = <<>> /\ Len(appended) = note.h0
            /\ cb.pc \in {"rebuild_clear", "rebuild_create", "rebuild_build",
                          "returned", "idle"}
            /\ cb.pc # "rebuild_clear" => note.clear # "none"
            /\ note.ret.kind \in {"none", "rebuilt", "apology"}
      [] case = "status" ->
            /\ ev = <<>> /\ Len(appended) = note.h0
            /\ cb.pc \in {"status", "returned", "idle"}
            /\ cb.pc # "status" => note.ret.kind = "status"
      [] case = "question" ->
            /\ cb.pc \in {"embed", "query", "completion", "stream", "returned", "idle"}
            /\ note.ret.kind \in {"none", "answer", "apology"}
            /\ cb.pc \in {"returned", "idle"} => note.ret.kind # "none"
      [] OTHER -> FALSE

\* C7 as claimed: in all four variants a line is handled by the case its
\* trimmed, lower-cased text names; rebuild and status lines are never asked
\* as questions.
C7_AllVariantsDispatch ==
    note.did # "none" =>
        (note.did = ExpectedCase(note.line) /\ Handled(ExpectedCase(note.line)))

\* C7 as amended: that holds in the Pinecone, ChromaDB and LanceDB scripts; the
\* in-memory script handles exit, quit and the empty line the same way and
\* answers every other line, rebuild and status included, as a question.
AmendedCase(v, l) ==
    IF v = "memory" /\ ExpectedCase(l) \in {"rebuild", "status"} THEN "question"
    ELSE ExpectedCase(l)

C7_Dispatch ==
    note.did # "none" =>
        (note.did = AmendedCase(variant, note.line)
         /\ Handled(AmendedCase(variant, note.line)))

C7_Witness ==
    /\ variant = "memory"
    /\ note.line = <<" ", "R", "e", "b", "u", "i", "l", "d">>
    /\ note.did = "question"
    /\ cb.pc = "stream"
    /\ chatHistory[Len(chatHistory)].content = <<"R", "e", "b", "u", "i", "l", "d">>

\* C8: the status command returns a report naming the configured chat model
\* and the number of turns in chatHistory; 0 while no question was asked,
\* whatever status and rebuild commands came before.
C8_StatusReport ==
    (variant \in Remote /\ note.did = "status" /\ cb.pc \in {"returned", "idle"}) =>
        /\ note.ret.kind = "status"
        /\ note.ret.report.model = (IF variant = "pinecone" THEN "gpt-4o" ELSE "gpt-4o-mini")
        /\ note.ret.report.history = Len(chatHistory)
        /\ stats.asked = 0 => note.ret.report.history = 0

C8_Witness ==
    /\ note.ret.kind = "status"
    /\ stats.asked = 0
    /\ stats.commands >= 2
    /\ note.ret.report.history = 0

\* The build ingested exactly what the knowledge-base folder holds.
FixedDocumentSet == b.allLoaded /\ b.chunks = ChunksOf(kb.folders)

C10_AbsentIsNoOp == note.clear = "notFound" => note.thrownAt # "clear"

\* C11 as claimed: retrieval for a question on an empty store, without a
\* handle, or with the backend unreachable returns an empty list, never an
\* error, and the process does not crash.
C11_RetrievalNeverFails ==
    note.retrieval.out # "none" =>
        /\ note.retrieval.out = "returned"
        /\ (Count(store) = 0 \/ note.retrieval.cause # "answered") => note.retrieval.n = 0
        /\ exited => exitCode = 0

\* C11 as amended: that holds in the Pinecone, ChromaDB and LanceDB scripts,
\* whose retrieval returns the nearest records otherwise; in the in-memory
\* script retrieval on an empty store returns an empty list, but a failed
\* request of the retriever makes retrieval throw: chat() catches it and
\* returns the apology, and the process does not crash.
C11_RetrievalContained ==
    note.retrieval.out # "none" =>
        /\ exited => exitCode = 0
        /\ note.did = "question"
        /\ IF variant = "memory" /\ note.retrieval.cause = "embedFailed"
           THEN /\ note.retrieval.out = "threw"
                /\ note.ret.kind = "apology"
                /\ activeChats = 0
           ELSE /\ note.retrieval.out = "returned"
                /\ note.retrieval.n =
                       (IF note.retrieval.cause # "answered" THEN 0
                        ELSE IF Count(store) < 4 THEN Count(store) ELSE 4)
        /\ variant = "memory" => note.retrieval.cause \in {"answered", "embedFailed"}

C11_Witness ==
    /\ variant \in Remote
    /\ note.retrieval = Retrieved("queryFailed", <<>>)
    /\ note.ret.kind = "answer"
    /\ pending

\* A credential the variant requires is absent from the environment or holds
\* the placeholder.
CredentialMissing ==
    \/ env.creds.OPENAI_API_KEY # "set"
    \/ variant \in {"pinecone", "lancedb"} /\ env.creds.STORE_API_KEY # "set"

\* C12: with a required credential absent or a placeholder, initialize fails
\* before any connection to the store and before any embedding request, and
\* the process ends with exit code 1.
C12_MissingCredentialFailsFast ==
    (CredentialMissing /\ mainPc # "start") =>
        (mainPc = "failed" /\ exited /\ exitCode = 1 /\ reqs = {})

\* C13: when initialize fails the process exits with code 1 and no line is
\* ever read; the loop runs only after initialize completed (credentials
\* accepted, index or collection at hand), and isInitialized is true only then.
C13_LoopOnlyAfterInit ==
    /\ mainPc = "failed" =>
            /\ exited /\ exitCode = 1
            /\ rl = "none" /\ ~pending /\ activeChats = 0
            /\ note.did = "none" /\ stats.asked = 0 /\ stats.commands = 0
            /\ ~isInitialized
    /\ exitCode = 1 => mainPc = "failed"
    /\ (rl # "none" \/ pending \/ note.did # "none" \/ activeChats > 0 \/ isInitialized) =>
            /\ mainPc = "loop"
            /\ OpenAIKeyAccepted(variant, env.creds)
            /\ StoreKeyAccepted(variant, env.creds)
            /\ variant \in {"pinecone", "chroma"} => handle # 0
            /\ variant \in {"chroma", "lancedb"} => "connect" \in reqs
            /\ variant \in Remote => "exists" \in reqs
    /\ (mainPc = "loop" /\ variant \in Remote) => isInitialized

C13_Witness ==
    /\ mainPc = "failed"
    /\ exitCode = 1
    /\ "embed" \in reqs
    /\ variant = "chroma"

\* C14: after a line that trims to exit or quit in any letter case nothing is
\* prompted and no chat call runs or can start, the process can only end, and
\* it ends with exit code 0; a signal can arrive in every state of the running
\* process (initialization, build, rebuild, answer), and every end of the
\* process other than a failed initialization has exit code 0.
C14_ExitAndSignals ==
    /\ note.did = "exit" =>
            /\ toLowerCase(trim(note.line)) \in {W_exit, W_quit}
            /\ rl = "closed" /\ ~pending /\ activeChats = 0 /\ cb.pc = "idle"
            /\ Len(appended) = note.h0
            /\ ~exited => (ENABLED ProcessEnds /\ ~ENABLED Line /\ ~ENABLED Resume)
    /\ (note.did # "none" /\ toLowerCase(trim(note.line)) \in {W_exit, W_quit}) =>
            note.did = "exit"
    /\ ~exited => ENABLED Signal
    /\ (exited /\ mainPc # "failed") => exitCode = 0

C14_Witness ==
    /\ note.did = "exit"
    /\ note.line = <<"E", "x", "i", "t", " ">>
    /\ stats.asked = 1
    /\ exited
    /\ exitCode = 0

\* C15: initialize opens the collection, table or index when it exists and
\* creates it when it is absent; it never issues a create request for one that
\* exists.
C15_NoCreateForExisting ==
    /\ "createExisting" \notin reqs
    /\ "open" \in reqs => "create" \notin reqs

\* C16: on a startup that finds records in the store (nothing inserted or
\* created yet by this run), initialize loads no document, requests no
\* embedding and inserts nothing: the knowledge base is built at startup only
\* when the store is empty or absent.
C16_ReuseExisting ==
    (mainPc # "loop" /\ Count(store) > 0 /\ reqs \cap {"insert", "create"} = {}) =>
        reqs \cap {"load", "embed"} = {}

\* The batch in which the build of a Pinecone index or ChromaDB collection
\* failed: the one of the chunk whose embedding was requested, or the one sent.
FailedBatch ==
    IF b.failedAt = "embed" THEN (b.i \div 100) + 1 ELSE ((b.i - 1) \div 100) + 1

\* C17: when a build fails in batch k, the records of batches 1..k-1 are in
\* the store as inserted and no record of batch k or of a later batch is
\* (as the failed build leaves the store: until the next command is read).
C17_EarlierBatchesKept ==
    (variant \in {"pinecone", "chroma"} /\ b.pc = "idle"
        /\ b.failedAt \in {"embed", "upsert"}
        /\ (b.caller = "rebuild" => note.thrownAt = "build")) =>
        LET committed == (FailedBatch - 1) * 100
        IN  /\ \A j \in 1..committed :
                    RecordOf(variant, b.chunks[j], j - 1) \in store.recs
            /\ \A r \in store.recs : r.id.i < committed
            /\ Count(store) = committed

C17_Witness ==
    /\ variant = "chroma"
    /\ b.pc = "idle"
    /\ b.failedAt = "embed"
    /\ b.i = 250 - 100
    /\ Count(store) = 100
    /\ mainPc = "failed"

\* A build that started on a store without records has just returned: to
\* initialize, or to a rebuild that reported success.
BuildDone ==
    /\ b.pc = "idle" /\ b.failedAt = "none" /\ b.fresh
    /\ \/ mainPc = "finish" /\ b.caller = "init"
       \/ note.did = "rebuild" /\ note.ret.kind = "rebuilt" /\ b.caller = "rebuild"

\* Records with the ids of the build's own, sent once more.
SentAgain ==
    LET again == [j \in 1..Len(b.chunks) |-> RecordOf(variant, b.chunks[j], j - 1)]
    IN  IF variant = "pinecone" THEN Upsert(store.recs, again)
        ELSE IF variant = "chroma" THEN AddNew(store.recs, again)
        ELSE store.recs

FolderFailed == b.caller # "none" /\ b.pc # "load" /\ b.bad # {}

\* What loadDocuments returned holds every chunk of every folder that loaded,
\* once and tagged with its folder's name, and nothing of a folder that failed.
OthersReturned ==
    /\ \A i \in 1..Len(kb.folders) :
            LET mine == { j \in 1..Len(b.chunks) : b.chunks[j].doc_type = kb.folders[i].name }
            IN  IF i \in b.bad THEN mine = {}
                ELSE /\ Cardinality(mine) = kb.folders[i].n
                     /\ { b.chunks[j].k : j \in mine } = 1..kb.folders[i].n
                     /\ \A j \in mine : b.chunks[j].source = kb.folders[i].name
    /\ \A j \in 1..Len(b.chunks) :
            \E i \in 1..Len(kb.folders) : b.chunks[j].doc_type = kb.folders[i].name

\* C19 as claimed: when a category folder fails to load, loadDocuments does
\* not fail; the folder is skipped and the documents of every other folder are
\* returned, each tagged with its own folder's name.
C19_FolderFailureSkipped ==
    FolderFailed => (b.failedAt # "load" /\ OthersReturned)

\* C19 as amended: that holds in the Pinecone, ChromaDB and LanceDB scripts; in
\* the in-memory script a folder that fails to load makes loadDocuments throw,
\* nothing is returned and initialization fails with exit code 1.
C19_FolderFailureByVariant ==
    FolderFailed =>
        IF variant = "memory"
        THEN /\ b.failedAt = "load" /\ b.chunks = <<>>
             /\ mainPc = "failed" /\ exitCode = 1 /\ Count(store) = 0
        ELSE b.failedAt # "load" /\ OthersReturned

C19_Witness ==
    /\ variant = "lancedb"
    /\ b.bad = {1}
    /\ Len(b.chunks) = 2
    /\ b.chunks[1].doc_type = "docs"
    /\ Count(store) = 2
    /\ mainPc = "loop"

\* loadDocuments has run for the build of initialize(), and the
\* knowledge-base root was absent when it ran.
RootAbsentAtBuild == b.caller = "init" /\ b.pc # "load" /\ b.rootAbsent

\* The root holds the example folder with its one file and nothing else.
ExampleCreated ==
    /\ kb.exists
    /\ Len(kb.folders) = 1
    /\ kb.folders[1].name = "example"
    /\ kb.folders[1].n = 1

\* Zero documents loaded, no embedding and no insert requested, and
\* initialize() went on to its end: the loop runs on an empty knowledge base.
EmptyBuildCompletes ==
    /\ b.chunks = <<>> /\ b.failedAt = "none" /\ b.sent = <<>>
    /\ reqs \cap {"embed", "insert"} = {}
    /\ mainPc \in {"finish", "loop"}
    /\ exitCode = 0
    /\ documentCount = 0
    /\ HandleValid => Count(store) = 0
    /\ mainPc = "loop" => isInitialized

\* C20 as claimed: with the knowledge-base root absent at build time, the
\* example folder with one sample file is created, the build loads zero
\* documents and inserts zero records, and initialization completes, so the
\* loop starts with an empty knowledge base.
C20_AbsentRootExample ==
    RootAbsentAtBuild => (ExampleCreated /\ EmptyBuildCompletes)

\* C20 as amended: that holds in the Pinecone, ChromaDB and LanceDB scripts;
\* the in-memory script creates nothing, the root stays absent, and
\* loadDocuments returns zero documents without failing.
C20_AbsentRootByVariant ==
    RootAbsentAtBuild =>
        IF variant = "memory"
        THEN /\ ~kb.exists /\ kb.folders = <<>>
             /\ b.chunks = <<>> /\ b.failedAt # "load"
             /\ Count(store) = 0
             /\ reqs \cap {"embed", "insert"} = {}
        ELSE ExampleCreated /\ EmptyBuildCompletes

C20_Witness ==
    /\ variant = "pinecone"
    /\ RootAbsentAtBuild
    /\ ExampleCreated
    /\ mainPc = "loop"
    /\ isInitialized
    /\ documentCount = 0
    /\ rl = "open" /\ pending

\* The completion request of the current question turn has been issued.
PromptSent == cb.pc \in {"completion", "stream"}

\* The turns that were in chatHistory when the turn began: the user turn of
\* the current question is the last one pushed.
HistoryBefore == SubSeq(chatHistory, 1, Len(chatHistory) - 1)

\* C21: the messages sent to the completion API are a system message and a
\* user message. The system message holds, first, the role-labelled
\* transcript of the turns that were in chatHistory before the turn (no
\* history section when there were none, and never the current question),
\* then every retrieved result with its text, labelled with its category
\* (and, in the store-backed scripts, its source). The user message is the
\* question as passed to chat().
C21_PromptContents ==
    PromptSent =>
        LET sys == cb.messages[1]
            usr == cb.messages[2]
            hist == sys.content.history
            ctx == sys.content.context
        IN  /\ Len(cb.messages) = 2
            /\ sys.role = "system" /\ usr.role = "user"
            /\ usr.content = cb.message /\ cb.message = trim(note.line)
            /\ chatHistory[Len(chatHistory)].role = "user"
            /\ chatHistory[Len(chatHistory)].n = note.h0 + 1
            /\ hist.section = (HistoryBefore # <<>>)
            /\ Len(hist.lines) = Len(HistoryBefore)
            /\ \A i \in 1..Len(HistoryBefore) :
                    /\ hist.lines[i][1] = (IF HistoryBefore[i].role = "user"
                                           THEN "Human" ELSE "Assistant")
                    /\ hist.lines[i][2] = HistoryBefore[i].content
                    /\ HistoryBefore[i].n <= note.h0
            /\ Len(ctx) = Len(cb.relevantDocs)
            /\ \A i \in 1..Len(ctx) :
                    /\ ctx[i].n = i
                    /\ ctx[i].doc_type = cb.relevantDocs[i].doc_type
                    /\ ctx[i].text = <<cb.relevantDocs[i].doc_type, cb.relevantDocs[i].k>>
                    /\ variant \in Remote => ctx[i].source = cb.relevantDocs[i].source

C21_Witness ==
    /\ PromptSent
    /\ cb.messages[1].content.history.section
    /\ Len(cb.messages[1].content.history.lines) >= 2
    /\ Len(cb.relevantDocs) = 3
    /\ variant = "chroma"

RECURSIVE Concat(_)
\* The concatenation of a sequence of texts, in order.
Concat(ss) == IF ss = <<>> THEN <<>> ELSE Head(ss) \o Concat(Tail(ss))

\* The fragments written to the terminal since the prompt.
Written == [i \in 1..Len(stdout) |-> stdout[i].text]

\* C22: on a successful question turn, the answer chat() returns and the
\* assistant turn stored are the concatenation, in arrival order, of the
\* non-empty fragments of the completion stream, which is also the text
\* written to the terminal while streaming.
C22_AnswerIsStream ==
    (note.did = "question" /\ note.ret.kind = "answer") =>
        LET answer == note.ret.text
            last == appended[Len(appended)]
        IN  /\ answer = Concat(SelectSeq(note.stream, LAMBDA f : f # <<>>))
            /\ answer = Concat(Written)
            /\ \A i \in 1..Len(stdout) : stdout[i].kind = "fragment" /\ stdout[i].text # <<>>
            /\ last.role = "assistant" /\ last.content = answer
            /\ chatHistory[Len(chatHistory)] = last

C22_Witness ==
    /\ note.did = "question"
    /\ note.ret.kind = "answer"
    /\ note.stream = << <<"o">>, <<>>, <<"k">> >>
    /\ note.ret.text = <<"o", "k">>
    /\ Len(stdout) = 2

\* Requests of one kind the current turn has issued: those answered, and the
\* one outstanding.
IssuedInTurn(kind) ==
    Cardinality({ i \in 1..Len(ev) : ev[i] = kind })
        + (IF cb.pc = kind THEN 1 ELSE 0)

\* C23: a question turn issues at most one query-embedding request and at
\* most one completion request, whether they succeed or fail; requests are
\* issued inside a question turn only, and once the turn has failed none is
\* outstanding, so a failed request is issued again only when the user
\* enters the question again.
C23_NoRetry ==
    /\ IssuedInTurn("embed") <= 1
    /\ IssuedInTurn("completion") <= 1
    /\ cb.pc \in {"embed", "query", "completion", "stream"} =>
            (note.did = "question" /\ note.ret = NoRet /\ activeChats = 1)
    /\ note.did # "question" => ev = <<>>
    /\ note.ret.kind = "apology" => cb.pc \in {"returned", "idle"}

C23_Witness ==
    /\ variant = "pinecone"
    /\ note.did = "question"
    /\ note.embedFailed
    /\ note.ret.kind = "apology"
    /\ ev = <<"embed", "prompt", "pushUser", "completion">>
    /\ cb.pc = "idle"
    /\ pending

RECURSIVE Sum(_)
Sum(ns) == IF ns = <<>> THEN 0 ELSE Head(ns) + Sum(Tail(ns))

\* Records the running build has handed to the store so far.
SentSoFar == Sum(b.sent)

\* The size of the batch the running build is filling.
BatchDue ==
    IF variant = "lancedb" THEN Len(b.chunks)
    ELSE IF Len(b.chunks) - SentSoFar < BatchSize THEN Len(b.chunks) - SentSoFar
    ELSE BatchSize

\* C24: during a build of the Pinecone, ChromaDB or LanceDB script the
\* embedding requests are issued one by one: when the request for chunk i+1
\* is outstanding, the embeddings of the chunks before it have returned and
\* are held, in order, for the batch; a batch goes to the store only when all
\* of its embeddings are held; no question turn has an embedding request
\* outstanding at the same time.
C24_OneEmbeddingAtATime ==
    (variant \in Remote /\ b.pc \in {"embed", "upsert", "createTable"}) =>
        /\ b.i <= Len(b.chunks)
        /\ b.pc = "embed" => b.i < Len(b.chunks)
        /\ b.buf = [j \in 1..(b.i - SentSoFar) |->
                        RecordOf(variant, b.chunks[SentSoFar + j], SentSoFar + j - 1)]
        /\ b.pc = "embed" => Len(b.buf) < BatchDue
        /\ b.pc \in {"upsert", "createTable"} => Len(b.buf) = BatchDue
        /\ cb.pc \notin {"embed", "query", "completion", "stream"}

C24_Witness ==
    /\ variant = "pinecone"
    /\ b.pc = "upsert"
    /\ b.sent = <<BatchSize>>
    /\ Len(b.buf) = BatchSize
    /\ b.i = 2 * BatchSize
    /\ b.caller = "rebuild"

\* C25: when the collection, table or index found at startup has a vector
\* dimension other than the embedding model's, initialize fails and the
\* interactive loop is not started.
C25_SchemaMismatchFatal ==
    (variant \in Remote /\ store.exists /\ ~DimMatches /\ handle = store.gen) =>
        mainPc \notin {"finish", "loop"}

\* The question turn of the current line ended in chat()'s catch block.
TurnFailed == note.did = "question" /\ note.ret.kind = "apology"

\* C26: a question turn that fails leaves chatHistory as it was before the
\* turn: nothing was pushed for the failed question.
C26_FailedTurnLeavesHistory ==
    TurnFailed => Len(appended) = note.h0

\* chatHistory is a sequence of whole exchanges: a user turn, then the
\* assistant turn that answered it (the turn pushed right after it).
WholeExchanges(h) ==
    /\ Len(h) % 2 = 0
    /\ \A i \in 1..Len(h) :
            IF i % 2 = 1
            THEN h[i].role = "user"
            ELSE h[i].role = "assistant" /\ h[i].n = h[i - 1].n + 1

\* C27: between turns chatHistory consists of whole exchanges: it starts with
\* a user turn, roles alternate, every user turn is followed by the assistant
\* turn that answered it, and eviction at the cap never splits an exchange.
C27_WholeExchanges ==
    (activeChats = 0 /\ cb.pc = "idle") => WholeExchanges(chatHistory)

\* initialize has completed and neither a build nor a rebuild is running.
NoBuildRunning ==
    mainPc = "loop" /\ b.pc = "idle" /\ cb.pc \in {"idle", "returned"}

\* C28: whenever no build or rebuild is in progress, documentCount is the
\* number of records in the store: after initialize and after every rebuild,
\* whether it succeeded, failed part-way or found no documents.
C28_DocumentCountIsCount ==
    (variant \in Remote /\ NoBuildRunning) => documentCount = Count(store)

\* C29: with a fixed, non-empty document set, whenever initialize completes
\* the store holds exactly one record per chunk of the document set, whatever
\* earlier runs did (here: at the end of initialize in a run that follows an
\* earlier one and finds records in the store, no call having failed in
\* either run).
C29_RepairedAtStartup ==
    (env.kind = "restart" /\ stats.runs > 1 /\ mainPc = "finish"
        /\ failuresLeft = MaxFailures /\ Count(store) > 0) =>
        store.recs = BuildRecs(variant, kb.folders)

\* initialize has come to its end: it returned, or it threw and main exited.
InitializeEnded == mainPc \in {"finish", "loop", "failed"}

\* C30: initialize always terminates, successfully or with an error that
\* leads to exit code 1, provided every call it makes returns: whenever a
\* run starts, initialize ends or the process is ended from outside.
C30_InitializeTerminates ==
    [](mainPc = "start" => <>(InitializeEnded \/ exited))

====
